---- MODULE Spec2Model ----
(***************************************************************************)
(* A model of src/main.py, get_nearby_objects_osm: one call of the         *)
(* function, from the query-building loop over filter_types, through the   *)
(* HTTP request, to the loop over data["elements"] and the return (or the  *)
(* exception that leaves the function).                                    *)
(*                                                                         *)
(* Representation.                                                         *)
(*  - A Python dict is a TLA+ record whose DOMAIN is the set of keys that  *)
(*    are present. A JSON value that is not a mapping where the code       *)
(*    expects one (null, a list, a string, a number) is the record NonDict.*)
(*  - A string the code case-converts or compares with a case-converted    *)
(*    string (filter_types entries, obj_type, the religion tag) is a       *)
(*    sequence of characters, upper and lower case distinct. The Cyrillic  *)
(*    labels are written in Latin transliteration, one token per letter.   *)
(*    Strings the code only compares for equality are TLA+ strings.        *)
(*  - A query clause f'node(around:R,LA,LO)["k"="v"]["name"]' is the       *)
(*    record [elem |-> "node", around |-> <<R,LA,LO>>, sel |-> <<k,v>>].   *)
(*  - The url, address and website fields of an output record are total    *)
(*    string functions of name, coordinates and tags that decide nothing;  *)
(*    the record keeps name, type, latitude and longitude.                 *)
(***************************************************************************)
EXTENDS Integers, Sequences, FiniteSets, TLC

VARIABLES
    lat, lon, radius, filter_types, \* the arguments of the call
    fi,            \* position of "for f_type in filter_types"
    query_parts,   \* the clauses appended so far
    pc,            \* "build", "post", "elements", "loop", "done"; "classify" below
    http,          \* what the HTTP exchange did
    data,          \* response.json()
    ei,            \* position of "for element in data[...]"
    objects,       \* the list under construction
    seen_names,    \* the set of names met
    built,         \* history: built[k] is the index of the element objects[k] was built from
    outcome,       \* "none", "returned", "raised"
    exc,           \* the exception that ended the try block, or "none"
    result,        \* the returned list
    tags_in,       \* the tags the classification alone is applied to
    obj_type_out,  \* its obj_type
    kept_out       \* "kept" or "dropped" by the filter that follows it, "none" before

vars == <<lat, lon, radius, filter_types, fi, query_parts,
          pc, http, data, ei, objects, seen_names, built, outcome, exc, result,
          tags_in, obj_type_out, kept_out>>

callVars == <<lat, lon, radius, filter_types, fi, query_parts,
              pc, http, data, ei, objects, seen_names, built, outcome, exc, result>>

classifyVars == <<tags_in, obj_type_out, kept_out>>

(* ------------------------------ bounds -------------------------------- *)
\* longest filter_types list of a modelled call
MaxFilter == 1
\* longest filter_types list given to the query builder alone
MaxQueryFilter == 3
\* longest data["elements"] list
MaxElems == 2

(* ------------------------------ strings ------------------------------- *)
\* upper/lower pairs of the letters used below
CasePairs ==
    { <<"A","a">>, <<"B","b">>, <<"C","c">>, <<"D","d">>, <<"E","e">>,
      <<"H","h">>, <<"I","i">>, <<"J","j">>, <<"K","k">>, <<"L","l">>,
      <<"M","m">>, <<"N","n">>, <<"O","o">>, <<"P","p">>, <<"R","r">>,
      <<"S","s">>, <<"T","t">>, <<"U","u">>, <<"V","v">>, <<"W","w">>,
      <<"Z","z">>, <<"CH","ch">>, <<"YA","ya">> }

LowerChar(c) ==
    IF \E p \in CasePairs : p[1] = c
    THEN (CHOOSE p \in CasePairs : p[1] = c)[2]
    ELSE c

\* str.lower()
Lower(s) == [i \in 1..Len(s) |-> LowerChar(s[i])]

STATUYA      == <<"s","t","a","t","u","ya">>
PAMYATNIK    == <<"p","a","m","ya","t","n","i","k">>
CERKOV       == <<"c","e","r","k","o","v","soft">>
DACAN        == <<"d","a","c","a","n">>
MECHET       == <<"m","e","ch","e","t","soft">>
INDUISTSKIJ_HRAM ==
    <<"i","n","d","u","i","s","t","s","k","i","j"," ","h","r","a","m">>
MUZEJ        == <<"m","u","z","e","j">>
DOSTOPRIMECHATELNOST ==
    <<"d","o","s","t","o","p","r","i","m","e","ch","a","t","e","l","soft",
      "n","o","s","t","soft">>
INTERESNOE_MESTO ==
    <<"i","n","t","e","r","e","s","n","o","e"," ","m","e","s","t","o">>

christian == <<"c","h","r","i","s","t","i","a","n">>
buddhist  == <<"b","u","d","d","h","i","s","t">>
muslim    == <<"m","u","s","l","i","m">>
hindu     == <<"h","i","n","d","u">>

\* the marker of a JSON value that is not a mapping
NonDict == [nondict |-> TRUE]
IsDict(v) == "nondict" \notin DOMAIN v
\* a JSON list is [items |-> <<...>>]; the marker of a value that cannot be iterated
NonList == [nonlist |-> TRUE]
IsList(v) == "items" \in DOMAIN v
EmptyDict == [x \in {} |-> ""]

(* --------------------------- query builder ---------------------------- *)
\* the clause with latitude and longitude interchanged
Clause_LonLat(elem, sel) == [elem |-> elem, around |-> <<radius, lon, lat>>, sel |-> sel]

Clause(elem, sel) == [elem |-> elem, around |-> <<radius, lat, lon>>, sel |-> sel]

\* the clauses one filter_types entry appends, by its lower-cased spelling
QueryClauses(f_type_lower) ==
    IF f_type_lower = STATUYA THEN
        << Clause("node", <<"artwork", "statue">>),
           Clause("node", <<"artwork", "sculpture">>),
           Clause("way",  <<"artwork", "statue">>),
           Clause("way",  <<"artwork", "sculpture">>) >>
    ELSE IF f_type_lower = PAMYATNIK THEN
        << Clause("node", <<"historic", "monument">>),
           Clause("node", <<"historic", "memorial">>),
           Clause("way",  <<"historic", "monument">>),
           Clause("way",  <<"historic", "memorial">>) >>
    ELSE IF f_type_lower \in {CERKOV, DACAN, MECHET, INDUISTSKIJ_HRAM} THEN
        << Clause("node", <<"amenity", "place_of_worship">>),
           Clause("way",  <<"amenity", "place_of_worship">>) >>
    ELSE IF f_type_lower = MUZEJ THEN
        << Clause("node", <<"tourism", "museum">>),
           Clause("way",  <<"tourism", "museum">>) >>
    ELSE IF f_type_lower = DOSTOPRIMECHATELNOST THEN
        << Clause("node", <<"tourism">>),
           Clause("way",  <<"tourism">>) >>
    ELSE << >>

\* one iteration of "for f_type in filter_types"
BuildStep ==
    /\ pc = "build"
    /\ fi <= Len(filter_types)
    /\ query_parts' = query_parts \o QueryClauses(Lower(filter_types[fi]))
    /\ fi' = fi + 1
    /\ UNCHANGED <<lat, lon, radius, filter_types, pc, http, data, ei, objects,
                   seen_names, built, outcome, exc, result>>
    /\ UNCHANGED classifyVars

\* the loop is exhausted: the query text is assembled, the try block is entered
BuildDone ==
    /\ pc = "build"
    /\ fi > Len(filter_types)
    /\ pc' = "post"
    /\ UNCHANGED <<lat, lon, radius, filter_types, fi, query_parts, http, data, ei,
                   objects, seen_names, built, outcome, exc, result>>
    /\ UNCHANGED classifyVars

(* ------------------------- classification ----------------------------- *)
\* tags.get("religion", "").lower()
Religion(tags) == Lower(IF "religion" \in DOMAIN tags THEN tags.religion ELSE << >>)

\* the inner if/elif chain on religion; obj_type keeps its initial value
\* when none matches
WorshipType(tags) ==
    IF Religion(tags) = christian THEN CERKOV
    ELSE IF Religion(tags) = buddhist THEN DACAN
    ELSE IF Religion(tags) = muslim THEN MECHET
    ELSE IF Religion(tags) = hindu THEN INDUISTSKIJ_HRAM
    ELSE INTERESNOE_MESTO

\* the chain with the museum test moved above the historic test
ObjType_MuseumFirst(tags) ==
    IF "artwork" \in DOMAIN tags /\ tags.artwork \in {"statue", "sculpture"}
        THEN STATUYA
    ELSE IF "tourism" \in DOMAIN tags /\ tags.tourism = "museum"
        THEN MUZEJ
    ELSE IF "historic" \in DOMAIN tags /\ tags.historic \in {"monument", "memorial"}
        THEN PAMYATNIK
    ELSE IF "amenity" \in DOMAIN tags /\ tags.amenity = "place_of_worship"
        THEN WorshipType(tags)
    ELSE IF "tourism" \in DOMAIN tags
        THEN DOSTOPRIMECHATELNOST
    ELSE INTERESNOE_MESTO

\* the chain in which a place of worship of no listed religion goes on to
\* the tourism tests
ObjType_FallThrough(tags) ==
    IF "artwork" \in DOMAIN tags /\ tags.artwork \in {"statue", "sculpture"}
        THEN STATUYA
    ELSE IF "historic" \in DOMAIN tags /\ tags.historic \in {"monument", "memorial"}
        THEN PAMYATNIK
    ELSE IF "amenity" \in DOMAIN tags /\ tags.amenity = "place_of_worship"
            /\ WorshipType(tags) # INTERESNOE_MESTO
        THEN WorshipType(tags)
    ELSE IF "tourism" \in DOMAIN tags /\ tags.tourism = "museum"
        THEN MUZEJ
    ELSE IF "tourism" \in DOMAIN tags
        THEN DOSTOPRIMECHATELNOST
    ELSE INTERESNOE_MESTO

\* the if/elif chain that resolves obj_type
ObjType(tags) ==
    IF "artwork" \in DOMAIN tags /\ tags.artwork \in {"statue", "sculpture"}
        THEN STATUYA
    ELSE IF "historic" \in DOMAIN tags /\ tags.historic \in {"monument", "memorial"}
        THEN PAMYATNIK
    ELSE IF "amenity" \in DOMAIN tags /\ tags.amenity = "place_of_worship"
        THEN WorshipType(tags)
    ELSE IF "tourism" \in DOMAIN tags /\ tags.tourism = "museum"
        THEN MUZEJ
    ELSE IF "tourism" \in DOMAIN tags
        THEN DOSTOPRIMECHATELNOST
    ELSE INTERESNOE_MESTO

(* ------------------------- element processing ------------------------- *)
\* element.get("tags", {})
TagsOf(element) == IF "tags" \in DOMAIN element THEN element.tags ELSE EmptyDict

\* tags.get("name"), "" standing for None
NameOf(tags) == IF "name" \in DOMAIN tags THEN tags.name ELSE ""

\* the exception the coordinate lookup raises, "none" when it succeeds
CoordError(element) ==
    IF "type" \notin DOMAIN element THEN "KeyError"
    ELSE IF element.type = "node"
        THEN IF "lat" \notin DOMAIN element \/ "lon" \notin DOMAIN element
             THEN "KeyError" ELSE "none"
    ELSE IF "center" \notin DOMAIN element THEN "KeyError"
    ELSE IF ~IsDict(element.center) THEN "TypeError"
    ELSE IF "lat" \notin DOMAIN element.center \/ "lon" \notin DOMAIN element.center
        THEN "KeyError"
    ELSE "none"

ObjLat(element) == IF element.type = "node" THEN element.lat ELSE element.center.lat
ObjLon(element) == IF element.type = "node" THEN element.lon ELSE element.center.lon

\* the test without its dedup half
Skipped_NoDedup(name, seen) == name = ""

\* the test without its "not name" half
Skipped_NoNameTest(name, seen) == name \in seen

\* "if not name or name in seen_names: continue"
Skipped(name, seen) == name = "" \/ name \in seen

\* the lenient variant: no membership test
InFilter_Lenient(obj_type, ftypes) == TRUE

\* "if obj_type not in filter_types: continue"
InFilter(obj_type, ftypes) == \E i \in 1..Len(ftypes) : ftypes[i] = obj_type

\* the exceptions the two except clauses catch
Caught(e) == e \in {"RequestException", "KeyError", "IndexError"}

\* leaving the try block by exception e: return [] when caught, else propagate
Raise(e) ==
    /\ pc' = "done"
    /\ exc' = e
    /\ outcome' = IF Caught(e) THEN "returned" ELSE "raised"
    /\ result' = << >>

(* ------------------------------ the call ------------------------------ *)
\* the lists of length at most n over the set S
ListsUpTo(S, n) == UNION { [1..k -> S] : k \in 0..n }

\* response.json() of a successful exchange, its elements drawn from pool
Responses(pool) ==
    { NonDict, EmptyDict, [elements |-> NonList] }
    \cup { [elements |-> [items |-> l]] : l \in ListsUpTo(pool, MaxElems) }

\* requests.post, raise_for_status and response.json()
Post(pool) ==
    /\ pc = "post"
    /\ \/ /\ http' = "network_error"
          /\ Raise("RequestException")
          /\ UNCHANGED data
       \/ /\ http' = "status_error"
          /\ Raise("RequestException")
          /\ UNCHANGED data
       \/ /\ http' = "body_not_json"
          \* requests.exceptions.JSONDecodeError in requests >= 2.27, a plain
          \* ValueError before: the repository pins no version
          /\ \E e \in {"RequestException", "ValueError"} : Raise(e)
          /\ UNCHANGED data
       \/ /\ http' = "ok"
          /\ \E d \in Responses(pool) : data' = d
          /\ pc' = "elements"
          /\ UNCHANGED <<outcome, exc, result>>
    /\ UNCHANGED <<lat, lon, radius, filter_types, fi, query_parts, ei,
                   objects, seen_names, built>>
    /\ UNCHANGED classifyVars

\* objects = [], seen_names = set(), and the evaluation of data["elements"]
LoopStart ==
    /\ pc = "elements"
    /\ objects' = << >>
    /\ seen_names' = {}
    /\ built' = << >>
    /\ IF ~IsDict(data) THEN Raise("TypeError") /\ UNCHANGED ei
       ELSE IF "elements" \notin DOMAIN data THEN Raise("KeyError") /\ UNCHANGED ei
       ELSE IF ~IsList(data.elements) THEN Raise("TypeError") /\ UNCHANGED ei
       ELSE /\ pc' = "loop"
            /\ ei' = 1
            /\ UNCHANGED <<outcome, exc, result>>
    /\ UNCHANGED <<lat, lon, radius, filter_types, fi, query_parts, http, data>>
    /\ UNCHANGED classifyVars

\* the record appended for an element
Record(element, name, obj_type) ==
    [name |-> name, type |-> obj_type,
     longitude |-> ObjLon(element), latitude |-> ObjLat(element)]

\* one iteration of "for element in data['elements']"
LoopStep ==
    /\ pc = "loop"
    /\ ei <= Len(data.elements.items)
    /\ LET element == data.elements.items[ei] IN
       IF ~IsDict(element) THEN
            Raise("AttributeError") /\ UNCHANGED <<ei, objects, seen_names, built>>
       ELSE LET tags == TagsOf(element) IN
       IF ~IsDict(tags) THEN
            Raise("AttributeError") /\ UNCHANGED <<ei, objects, seen_names, built>>
       ELSE LET name == NameOf(tags) IN
       IF Skipped(name, seen_names) THEN
            /\ ei' = ei + 1
            /\ UNCHANGED <<pc, objects, seen_names, built, outcome, exc, result>>
       ELSE
            /\ seen_names' = seen_names \cup {name}
            /\ IF CoordError(element) # "none" THEN
                    Raise(CoordError(element)) /\ UNCHANGED <<ei, objects, built>>
               ELSE IF ~InFilter(ObjType(tags), filter_types) THEN
                    /\ ei' = ei + 1
                    /\ UNCHANGED <<pc, objects, built, outcome, exc, result>>
               ELSE
                    /\ objects' = Append(objects, Record(element, name, ObjType(tags)))
                    /\ built' = Append(built, ei)
                    /\ ei' = ei + 1
                    /\ UNCHANGED <<pc, outcome, exc, result>>
    /\ UNCHANGED <<lat, lon, radius, filter_types, fi, query_parts, http, data>>
    /\ UNCHANGED classifyVars

\* "return objects"
Return ==
    /\ pc = "loop"
    /\ ei > Len(data.elements.items)
    /\ pc' = "done"
    /\ outcome' = "returned"
    /\ result' = objects
    /\ UNCHANGED <<lat, lon, radius, filter_types, fi, query_parts, http, data,
                   ei, objects, seen_names, built, exc>>
    /\ UNCHANGED classifyVars

(* ------------------------------ inputs -------------------------------- *)
Node(la, lo, tags) == [type |-> "node", lat |-> la, lon |-> lo, tags |-> tags]
Way(center, tags)  == [type |-> "way", center |-> center, tags |-> tags]

Names == {"A", "B"}

\* tag mappings of named elements, one per classification outcome
NamedTags(n) ==
    { [name |-> n],
      [name |-> n, tourism |-> "museum"],
      [name |-> n, historic |-> "monument", tourism |-> "museum"],
      [name |-> n, amenity |-> "place_of_worship", tourism |-> "attraction"] }

\* named elements of each classification as node and as way, nameless
\* elements, a named node without coordinates and a way whose center is no
\* mapping
Elements ==
    { Node(1, 1, t) : t \in UNION { NamedTags(n) : n \in Names } }
    \cup { Way([lat |-> 2, lon |-> 2], t) : t \in NamedTags("A") }
    \cup { Node(1, 1, [name |-> "A", tourism |-> "attraction"]),
           [type |-> "node", lat |-> 3, lon |-> 3],
           [type |-> "way"],
           Node(3, 3, [tourism |-> "museum"]),
           Node(3, 3, [name |-> "", tourism |-> "museum"]),
           [type |-> "node", tags |-> [name |-> "A", tourism |-> "museum"]],
           Way(NonDict, [name |-> "B", tourism |-> "museum"]) }

\* elements of every shape the coordinate lookup distinguishes
ErrElements ==
    { Node(1, 1, [name |-> n, tourism |-> "museum"]) : n \in Names }
    \cup { [type |-> "node", lon |-> 1, tags |-> [name |-> "A", tourism |-> "museum"]],
           [type |-> "node", lat |-> 1, tags |-> [name |-> "A", tourism |-> "museum"]],
           [lat |-> 1, lon |-> 1, tags |-> [name |-> "A", tourism |-> "museum"]],
           Way([lat |-> 2, lon |-> 2], [name |-> "A", tourism |-> "museum"]),
           Way([lat |-> 2], [name |-> "A", tourism |-> "museum"]),
           Way([lon |-> 2], [name |-> "A", tourism |-> "museum"]),
           Way(NonDict, [name |-> "A", tourism |-> "museum"]),
           [type |-> "way", tags |-> [name |-> "A", tourism |-> "museum"]],
           [type |-> "way", tags |-> [tourism |-> "museum"]],
           Node(1, 1, NonDict),
           NonDict }

\* canonical labels and spellings that differ from them in letter case
MUZEJ_Capital == <<"M","u","z","e","j">>
PAMYATNIK_Upper == <<"P","A","M","YA","T","N","I","K">>
Vocabulary ==
    { STATUYA, PAMYATNIK, CERKOV, DACAN, MECHET, INDUISTSKIJ_HRAM, MUZEJ,
      DOSTOPRIMECHATELNOST }
FilterVocabulary ==
    { MUZEJ, MUZEJ_Capital, PAMYATNIK, DOSTOPRIMECHATELNOST, INTERESNOE_MESTO }

InitCall(filters, lats, lons, radii) ==
    /\ lat \in lats
    /\ lon \in lons
    /\ radius \in radii
    /\ filter_types \in filters
    /\ fi = 1
    /\ query_parts = << >>
    /\ pc = "build"
    /\ http = "none"
    /\ data = EmptyDict
    /\ ei = 0
    /\ objects = << >>
    /\ seen_names = {}
    /\ built = << >>
    /\ outcome = "none"
    /\ exc = "none"
    /\ result = << >>
    /\ tags_in = EmptyDict
    /\ obj_type_out = << >>
    /\ kept_out = "none"

Init == InitCall(ListsUpTo(FilterVocabulary, MaxFilter), {59}, {30}, {1000})

Next ==
    \/ BuildStep
    \/ BuildDone
    \/ Post(Elements)
    \/ LoopStart
    \/ LoopStep
    \/ Return

Spec == Init /\ [][Next]_vars

NextErr ==
    \/ BuildStep
    \/ BuildDone
    \/ Post(ErrElements)
    \/ LoopStart
    \/ LoopStep
    \/ Return

SpecErr == Init /\ [][NextErr]_vars

(* ----------------------- the query builder alone ---------------------- *)
QueryVocabulary == Vocabulary \cup {MUZEJ_Capital, PAMYATNIK_Upper, INTERESNOE_MESTO}

InitQuery ==
    InitCall(ListsUpTo(QueryVocabulary, MaxQueryFilter), {59, 60}, {30}, {250, 1000})

NextQuery ==
    \/ BuildStep
    \/ BuildDone

SpecQuery == InitQuery /\ [][NextQuery]_vars

(* ------------------ classification and filter alone ------------------- *)
\* the mappings with key k absent or bound to a value of S
Opt(k, S) == {EmptyDict} \cup { [x \in {k} |-> v] : v \in S }

Religions ==
    { christian, buddhist, muslim, hindu,
      <<"C","h","r","i","s","t","i","a","n">>,
      <<"B","U","D","D","H","I","S","T">>,
      <<"j","e","w","i","s","h">>,
      << >> }

AllTags ==
    { a @@ h @@ m @@ r @@ t :
        a \in Opt("artwork", {"statue", "sculpture", "mural"}),
        h \in Opt("historic", {"monument", "memorial", "castle"}),
        m \in Opt("amenity", {"place_of_worship", "cafe"}),
        r \in Opt("religion", Religions),
        t \in Opt("tourism", {"museum", "attraction"}) }

InitClassify ==
    /\ lat = 59
    /\ lon = 30
    /\ radius = 1000
    /\ filter_types \in ListsUpTo(FilterVocabulary, MaxFilter)
    /\ fi = 1
    /\ query_parts = << >>
    /\ pc = "classify"
    /\ http = "none"
    /\ data = EmptyDict
    /\ ei = 0
    /\ objects = << >>
    /\ seen_names = {}
    /\ built = << >>
    /\ outcome = "none"
    /\ exc = "none"
    /\ result = << >>
    /\ tags_in \in AllTags
    /\ obj_type_out = << >>
    /\ kept_out = "none"

\* obj_type is resolved from the tags and tested against filter_types
Classify ==
    /\ pc = "classify"
    /\ obj_type_out' = ObjType(tags_in)
    /\ kept_out' = IF InFilter(ObjType(tags_in), filter_types) THEN "kept" ELSE "dropped"
    /\ pc' = "classified"
    /\ UNCHANGED <<lat, lon, radius, filter_types, fi, query_parts, http, data, ei,
                   objects, seen_names, built, outcome, exc, result, tags_in>>

NextClassify == Classify

SpecClassify == InitClassify /\ [][NextClassify]_vars

(* ======================= the claims: vocabulary ======================= *)
\* the elements of the response, when it has a list of them
Items == IF IsDict(data) /\ "elements" \in DOMAIN data /\ IsList(data.elements)
         THEN data.elements.items ELSE << >>

\* element i is a mapping whose tags, if any, are a mapping
WellFormed(i) == IsDict(Items[i]) /\ IsDict(TagsOf(Items[i]))

ElemName(i) == NameOf(TagsOf(Items[i]))

\* element i has a non-empty name
Named(i) == WellFormed(i) /\ ElemName(i) # ""

\* no earlier element carries element i's name
FirstOfName(i) == \A h \in 1..(i - 1) : ~(Named(h) /\ ElemName(h) = ElemName(i))

\* element i has a coordinate the code can read
Resolvable(i) == CoordError(Items[i]) = "none"

\* the string t occurs in the list of requested categories
Requested(t) == \E i \in 1..Len(filter_types) : filter_types[i] = t

\* the call has returned a list that holds a record built from element i
InOutput(i) ==
    /\ pc = "done"
    /\ outcome = "returned"
    /\ \E k \in 1..Len(result) : built[k] = i /\ result[k] = objects[k]

\* the call has returned the list its loop built
ReturnedList == pc = "done" /\ outcome = "returned" /\ exc = "none"

(* ------------------------------- C1 ----------------------------------- *)
\* C1: the returned list (and the list under construction) holds no two
\* records with the same name, and its records stand in the order of the
\* elements they were built from, each carrying its element's name.
C1_NoDuplicateNamesInOrder ==
    /\ \A i, j \in 1..Len(result) : i < j => result[i].name # result[j].name
    /\ \A i, j \in 1..Len(objects) : i < j => objects[i].name # objects[j].name
    /\ Len(built) = Len(objects)
    /\ \A k \in 1..Len(objects) :
          /\ built[k] \in 1..Len(Items)
          /\ objects[k].name = ElemName(built[k])
    /\ \A i, j \in 1..Len(built) : i < j => built[i] < built[j]
    /\ ReturnedList => result = objects

\* a response whose first and last elements share a name was reduced to one
\* record, and one with two names gave two records in input order
C1_Witness ==
    /\ ReturnedList
    /\ Len(Items) = MaxElems
    /\ Named(1) /\ ElemName(MaxElems) = ElemName(1)
    /\ Len(result) = 1
    /\ built = <<1>>

(* ------------------------------- C5 ----------------------------------- *)
\* C5: every record of the returned list has a type that is an entry of
\* filter_types; the fallback label is in the output only when the caller
\* requested that exact string.
C5_StrictFilter ==
    /\ \A k \in 1..Len(result) : Requested(result[k].type)
    /\ \A k \in 1..Len(objects) : Requested(objects[k].type)
    /\ (\E k \in 1..Len(result) : result[k].type = INTERESNOE_MESTO)
          => Requested(INTERESNOE_MESTO)

\* a named, resolvable, first-of-its-name element was dropped by the filter
\* while another element of the same response was kept
C5_Witness ==
    /\ ReturnedList
    /\ Len(result) = 1
    /\ \E i \in 1..Len(Items) :
          /\ Named(i) /\ FirstOfName(i) /\ Resolvable(i)
          /\ ~Requested(ObjType(TagsOf(Items[i])))
          /\ ~InOutput(i)

(* ------------------------------- C2 ----------------------------------- *)
\* elements i < j carry the same name, i first of that name, with different
\* tags or coordinates, both with resolvable coordinates
SameNamePair(i, j) ==
    /\ i < j
    /\ Named(i) /\ Named(j) /\ ElemName(i) = ElemName(j)
    /\ FirstOfName(i)
    /\ Items[i] # Items[j]
    /\ Resolvable(i) /\ Resolvable(j)

\* C2 as claimed: of two same-named elements the output holds a record
\* built from the first and none built from the second, whatever the tags
\* and whatever filter_types. (Stated for the calls whose loop ran to its
\* end, so that no failure of another element is what refutes it.)
C2_FirstAlwaysInOutput ==
    (ReturnedList /\ filter_types # << >>) =>
        \A i, j \in 1..Len(Items) :
            SameNamePair(i, j) => InOutput(i) /\ ~InOutput(j)

\* C2 as amended: the output never holds a record built from the second;
\* it holds one built from the first only if the first resolves to a
\* requested type, and when it does the output either holds that record or
\* is the empty list.
C2_FirstWinsIfRequested ==
    (pc = "done" /\ outcome = "returned") =>
        \A i, j \in 1..Len(Items) :
            SameNamePair(i, j) =>
                /\ ~InOutput(j)
                /\ InOutput(i) => Requested(ObjType(TagsOf(Items[i])))
                /\ Requested(ObjType(TagsOf(Items[i]))) => (InOutput(i) \/ result = << >>)
                /\ \A k \in 1..Len(result) :
                      result[k].name = ElemName(i) => built[k] = i

\* the first of two same-named elements is not of a requested type and the
\* second is: neither is in the output
C2_Witness ==
    /\ ReturnedList
    /\ Len(Items) = 2
    /\ SameNamePair(1, 2)
    /\ ~Requested(ObjType(TagsOf(Items[1])))
    /\ Requested(ObjType(TagsOf(Items[2])))
    /\ result = << >>

(* ------------------------------- C3 ----------------------------------- *)
\* element i is named, first of its name, has a resolvable coordinate and
\* resolves to a requested type
Qualifies(i) ==
    /\ Named(i) /\ FirstOfName(i) /\ Resolvable(i)
    /\ Requested(ObjType(TagsOf(Items[i])))

\* C3 as claimed: an element without a resolvable coordinate is skipped
\* alone; every qualifying element of the response is in the returned list.
C3_ErrorIsolation ==
    (pc = "done" /\ outcome = "returned") =>
        \A i \in 1..Len(Items) :
            (WellFormed(i) /\ Qualifies(i)) => InOutput(i)

(* ------------------------------- C4 ----------------------------------- *)
\* the response is a mapping and its "elements", when present, a list of
\* mappings: the shapes the claim lists
C4_ListedShape ==
    /\ IsDict(data)
    /\ "elements" \in DOMAIN data => IsList(data.elements)
    /\ \A i \in 1..Len(Items) : IsDict(Items[i])

\* C4 as claimed: whatever the HTTP call does (network error, non-2xx
\* status, success) and whatever the shape of the response, the call ends by
\* returning a list, the empty list after a transport failure or a response
\* without a usable "elements" list. (Stated for the listed shapes.)

C4_NeverRaises ==
    (pc = "done" /\ http \in {"network_error", "status_error", "ok"} /\ C4_ListedShape) =>
        /\ outcome = "returned"
        /\ (http # "ok" \/ exc # "none") => result = << >>

(* ------------------------------- C7 ----------------------------------- *)
\* the loop is about to process a well-formed element without a name
AtNameless ==
    /\ pc = "loop"
    /\ ei <= Len(Items)
    /\ WellFormed(ei)
    /\ ElemName(ei) = ""

\* C7: no record of the list is built from an element without a name, and
\* processing such an element changes neither seen_names nor the list.
C7_NamelessLeaveNoTrace ==
    /\ [](\A k \in 1..Len(built) : Named(built[k]))
    /\ [](\A k \in 1..Len(result) : result[k].name # "")
    /\ [][AtNameless =>
            /\ seen_names' = seen_names
            /\ objects' = objects
            /\ pc' = "loop"
            /\ ei' = ei + 1]_vars

\* a nameless element was processed first, and the named element after it
\* is in the output
C7_Witness ==
    /\ ReturnedList
    /\ Len(Items) = 2
    /\ WellFormed(1) /\ ElemName(1) = ""
    /\ "tags" \in DOMAIN Items[1]
    /\ InOutput(2)
    /\ Cardinality(seen_names) = 1

(* ------------------------------- C10 ---------------------------------- *)
\* C10 as claimed: for every entry of filter_types the query builder
\* recognizes (it contributes a clause), a named, first-of-its-name,
\* resolvable element that classifies into that category is in the output.
\* (Stated for the calls whose loop ran to its end.)
C10_BuilderAndFilterAgree ==
    ReturnedList =>
        \A f \in 1..Len(filter_types) :
            QueryClauses(Lower(filter_types[f])) # << >> =>
                \A i \in 1..Len(Items) :
                    ( /\ Named(i) /\ FirstOfName(i) /\ Resolvable(i)
                      /\ ObjType(TagsOf(Items[i])) = Lower(filter_types[f]) )
                    => InOutput(i)

(* ------------------------------- C6 ----------------------------------- *)
\* the sub-rules of a category, as the claim lists them
SubRules(f) ==
    IF f = STATUYA THEN
        { <<e, <<"artwork", v>> >> : e \in {"node", "way"}, v \in {"statue", "sculpture"} }
    ELSE IF f = PAMYATNIK THEN
        { <<e, <<"historic", v>> >> : e \in {"node", "way"}, v \in {"monument", "memorial"} }
    ELSE IF f \in {CERKOV, DACAN, MECHET, INDUISTSKIJ_HRAM} THEN
        { <<e, <<"amenity", "place_of_worship">> >> : e \in {"node", "way"} }
    ELSE IF f = MUZEJ THEN
        { <<e, <<"tourism", "museum">> >> : e \in {"node", "way"} }
    ELSE IF f = DOSTOPRIMECHATELNOST THEN
        { <<e, <<"tourism">> >> : e \in {"node", "way"} }
    ELSE {}

AllSubRules == UNION { SubRules(f) : f \in Vocabulary }

\* how often the clause of sub-rule r occurs in the query
Occurrences(r) ==
    Cardinality({ k \in 1..Len(query_parts) :
                    <<query_parts[k].elem, query_parts[k].sel>> = r })

\* the query is complete and every entry of filter_types is a canonical label
QueryOfVocabulary ==
    /\ pc = "post"
    /\ \A i \in 1..Len(filter_types) : filter_types[i] \in Vocabulary

\* every clause carries the literal around:{radius},{lat},{lon}
AroundLiteral ==
    \A k \in 1..Len(query_parts) : query_parts[k].around = <<radius, lat, lon>>

\* no label stands twice in filter_types
NoRepeatedLabel ==
    \A i, j \in 1..Len(filter_types) : i < j => filter_types[i] # filter_types[j]

\* C6 as claimed: the query of a list of canonical labels holds exactly one
\* clause per sub-rule of each requested category, no clause twice, and
\* every clause carries the literal around values. (Stated for the lists
\* that name no label twice.)
C6_OneClausePerSubRule ==
    (QueryOfVocabulary /\ NoRepeatedLabel) =>
        /\ \A i \in 1..Len(filter_types) :
              \A r \in SubRules(filter_types[i]) : Occurrences(r) = 1
        /\ \A r \in AllSubRules : Occurrences(r) <= 1
        /\ AroundLiteral

\* C6 as amended: every entry appends one clause per sub-rule of its
\* category, so a sub-rule's clause occurs once per entry that maps to it
\* (the four worship labels share theirs) and nothing else is in the query;
\* no clause occurs twice when no label is repeated and at most one worship
\* label is present; every clause carries the literal around values.
C6_OneClausePerSubRulePerEntry ==
    QueryOfVocabulary =>
        /\ \A r \in AllSubRules :
              Occurrences(r) =
                Cardinality({ i \in 1..Len(filter_types) : r \in SubRules(filter_types[i]) })
        /\ \A k \in 1..Len(query_parts) :
              <<query_parts[k].elem, query_parts[k].sel>> \in AllSubRules
        /\ ( \A i, j \in 1..Len(filter_types) :
                i < j => SubRules(filter_types[i]) \cap SubRules(filter_types[j]) = {} )
             => \A r \in AllSubRules : Occurrences(r) <= 1
        /\ AroundLiteral

\* two worship labels were requested and their two clauses stand twice
C6_Witness ==
    /\ pc = "post"
    /\ filter_types = <<CERKOV, DACAN>>
    /\ Len(query_parts) = 4
    /\ Occurrences(<<"node", <<"amenity", "place_of_worship">> >>) = 2

(* ------------------------------- C8 ----------------------------------- *)
ArtworkRule  == "artwork" \in DOMAIN tags_in /\ tags_in.artwork \in {"statue", "sculpture"}
HistoricRule == "historic" \in DOMAIN tags_in /\ tags_in.historic \in {"monument", "memorial"}
WorshipRule  == "amenity" \in DOMAIN tags_in /\ tags_in.amenity = "place_of_worship"
MuseumRule   == "tourism" \in DOMAIN tags_in /\ tags_in.tourism = "museum"
TourismRule  == "tourism" \in DOMAIN tags_in

\* the religion tag, lower-cased, is one of the four the code names
RecognizedReligion ==
    /\ "religion" \in DOMAIN tags_in
    /\ Lower(tags_in.religion) \in {christian, buddhist, muslim, hindu}

\* the label of the religion subtype, the fallback label when there is none
WorshipLabel ==
    IF ~RecognizedReligion THEN INTERESNOE_MESTO
    ELSE CASE Lower(tags_in.religion) = christian -> CERKOV
           [] Lower(tags_in.religion) = buddhist  -> DACAN
           [] Lower(tags_in.religion) = muslim    -> MECHET
           [] Lower(tags_in.religion) = hindu     -> INDUISTSKIJ_HRAM

\* C8: the resolved type is that of the first matching rule in the order
\* artwork, historic, place of worship, museum, any tourism tag, fallback;
\* historic=monument with tourism=museum resolves to the historic label.
C8_FirstMatchWins ==
    pc = "classified" =>
        /\ ArtworkRule => obj_type_out = STATUYA
        /\ (~ArtworkRule /\ HistoricRule) => obj_type_out = PAMYATNIK
        /\ (~ArtworkRule /\ ~HistoricRule /\ WorshipRule) => obj_type_out = WorshipLabel
        /\ (~ArtworkRule /\ ~HistoricRule /\ ~WorshipRule /\ MuseumRule)
              => obj_type_out = MUZEJ
        /\ (~ArtworkRule /\ ~HistoricRule /\ ~WorshipRule /\ ~MuseumRule /\ TourismRule)
              => obj_type_out = DOSTOPRIMECHATELNOST
        /\ (~ArtworkRule /\ ~HistoricRule /\ ~WorshipRule /\ ~TourismRule)
              => obj_type_out = INTERESNOE_MESTO
        /\ (~ArtworkRule /\ MuseumRule
              /\ "historic" \in DOMAIN tags_in /\ tags_in.historic = "monument")
              => obj_type_out = PAMYATNIK

\* the tags historic=monument, tourism=museum were classified
C8_Witness ==
    /\ pc = "classified"
    /\ tags_in = [historic |-> "monument", tourism |-> "museum"]
    /\ obj_type_out = PAMYATNIK

(* ------------------------------- C9 ----------------------------------- *)
\* C9 as claimed: a place of worship whose religion is absent or not one of
\* the four resolves to the fallback label, tourism tag or not, and is
\* dropped by the category filter. (Stated for the tags the worship rule is
\* reached with, the artwork and historic rules coming first.)
C9_UnknownReligionDropped ==
    (pc = "classified" /\ ~ArtworkRule /\ ~HistoricRule /\ WorshipRule
        /\ ~RecognizedReligion) =>
        /\ obj_type_out = INTERESNOE_MESTO
        /\ kept_out = "dropped"

\* C9 as amended: a place of worship that matches neither the artwork nor
\* the historic rule and whose religion is absent or not one of the four
\* resolves to the fallback label, tourism tag or not; it is dropped by the
\* category filter unless the fallback label itself was requested.
C9_UnknownReligionFallback ==
    (pc = "classified" /\ ~ArtworkRule /\ ~HistoricRule /\ WorshipRule
        /\ ~RecognizedReligion) =>
        /\ obj_type_out = INTERESNOE_MESTO
        /\ kept_out = "dropped" <=> ~Requested(INTERESNOE_MESTO)

\* a place of worship of an unlisted religion with tourism=museum was
\* dropped although the museum label was requested
C9_Witness ==
    /\ pc = "classified"
    /\ ~ArtworkRule /\ ~HistoricRule /\ WorshipRule /\ MuseumRule
    /\ "religion" \in DOMAIN tags_in /\ ~RecognizedReligion
    /\ Requested(MUZEJ)
    /\ obj_type_out = INTERESNOE_MESTO
    /\ kept_out = "dropped"

====
